---------------------------- MODULE Spec2Model ----------------------------
(* The VMM orchestration core of src/src/vmm/src/lib.rs (struct Vmm): the   *)
(* control thread's operations start_vcpus, resume_vcpus, process and stop, *)
(* the vCPU threads on the other end of each handle's channels, the writers *)
(* of the exit-event descriptor and the other holders of the exit           *)
(* observers' locks.  The Linux build (cfg target_os = "linux") is the one  *)
(* modelled.                                                                *)
EXTENDS Integers, Sequences, FiniteSets, TLC

(* ------------------------------ bounds --------------------------------- *)
\* vCPU handles the vector may hold over a run
MaxVcpus == 2
\* responses all vCPU threads together emit over a run
MaxResponses == 2
\* calls of start_vcpus / resume_vcpus over a run
MaxCalls == 2
\* exit observers registered before construction
MaxObservers == 2
\* pending, unread writes the exit-event counter is followed up to
MaxExitWrites == 1

(* --------------------------- program constants ------------------------- *)
FC_EXIT_CODE_OK == 0

\* virtio::fs: the device id and virtio device type of the fs device
FS_DEV_ID == "virtio_fs"
VIRTIO_ID_FS == 26

\* the key of the one device registered before construction, and the keys
\* get_bus_device is called with: that one and one that is not registered
FsDevice == [type |-> VIRTIO_ID_FS, id |-> FS_DEV_ID]
DeviceKeys == {FsDevice, [type |-> VIRTIO_ID_FS, id |-> "absent"]}

\* Descriptors events are delivered for: the one of Vmm.exit_evt
\* (exit_evt.as_raw_fd()) and one that is not the Orchestrator's
ExitEvtFd == "exit_evt"
OtherFd == "other"

\* EventSet::IN, and event sets that are not exactly IN
EventSetIn == {"IN"}
EventSets == {EventSetIn, {"IN", "OUT"}}

\* EpollEvent::new(events, data)
EpollEvent(events, data) == [events |-> events, data |-> data]

\* the events the event manager may call process with
Events == {EpollEvent(es, fd) : es \in EventSets, fd \in {ExitEvtFd, OtherFd}}
NoEvent == EpollEvent({}, "")

\* exit codes a vCPU may report: the default code and one other
ExitCodes == {FC_EXIT_CODE_OK, 7}

(* VcpuResponse: Resumed, Paused, Exited(code) *)
Resumed == [tag |-> "Resumed", code |-> 0]
Paused == [tag |-> "Paused", code |-> 0]
Exited(c) == [tag |-> "Exited", code |-> c]
VcpuResponse == {Resumed, Paused} \cup {Exited(c) : c \in ExitCodes}

\* what a thread that breaks the contract may emit without being asked
Unsolicited == {Resumed, Paused}

VcpuIds == 1..MaxVcpus
ObserverIds == 1..MaxObservers

VARIABLES
    vcpus_handles,   \* Vmm.vcpus_handles: the vCPU ids, in push order
    exit_evt,        \* Vmm.exit_evt: the eventfd's counter
    exit_observers,  \* Vmm.exit_observers: observer ids, in registration order
    mmio_devices,    \* Vmm.mmio_device_manager: the (type, id) keys registered
    mmio_bus,        \* per vCPU id: the bus its thread runs with, or "none"
    event,           \* process: the EpollEvent it was called with
    pc,              \* where the control thread is
    op,              \* the operation the caller invoked ("" when idle)
    idx,             \* the index of the loop the control thread is in
    nArg,            \* the argument of the call: vcpus.len(), the device key
    lenAtCall,       \* vcpus_handles.len() when the operation was called
    result,          \* the value the operation returned
    thread,          \* per vCPU id: "none", "paused", "running", "dead"
    evq,             \* per vCPU id: Resume commands queued for the thread
    respq,           \* per vCPU id: responses queued for the handle
    took,            \* per vCPU id: responses this resume_vcpus call received
    polled,          \* process: what try_recv returned per handle polled
    atEvent,         \* process: respq as it was when the exit event was taken
    reported,        \* per vCPU id: the exit codes the thread has reported
    nResponses,      \* responses emitted so far
    nCalls,          \* start_vcpus / resume_vcpus calls so far
    stopArg,         \* stop's exit_code argument (-1: stop not called)
    stopCalls,       \* how many times stop was called
    lock,            \* per observer: "free", "other", "stop", "poisoned"
    invoked,         \* observers whose on_vmm_exit ran, in order
    inHook,          \* observers whose on_vmm_exit is running
    hookErr,         \* observers whose on_vmm_exit reported an error
    termRestored,    \* term_set_canonical_mode: "", "ok", "err"
    exitStatus       \* the status the process ended with (-1: running)

vars == <<vcpus_handles, exit_evt, exit_observers, mmio_devices, mmio_bus, event, pc, op, idx, nArg,
          lenAtCall, result, thread, evq, respq, took, polled, atEvent,
          reported, nResponses, nCalls, stopArg, stopCalls, lock, invoked,
          inHook, hookErr, termRestored, exitStatus>>

ctlVars == <<pc, op, idx, nArg, lenAtCall, result>>
vcpuVars == <<thread, evq, respq, reported, nResponses>>
stopVars == <<stopArg, stopCalls, lock, invoked, inHook, hookErr,
              termRestored, exitStatus>>

NoResps == [i \in VcpuIds |-> <<>>]

Init ==
    /\ vcpus_handles = <<>>
    /\ exit_evt = 0
    /\ \E n \in 0..MaxObservers : exit_observers = [k \in 1..n |-> k]
    /\ mmio_devices = {FsDevice}
    /\ mmio_bus = [i \in VcpuIds |-> "none"]
    /\ event = NoEvent
    /\ pc = "idle"
    /\ op = ""
    /\ idx = 0
    /\ nArg = 0
    /\ lenAtCall = 0
    /\ result = ""
    /\ thread = [i \in VcpuIds |-> "none"]
    /\ evq = [i \in VcpuIds |-> 0]
    /\ respq = NoResps
    /\ took = NoResps
    /\ polled = NoResps
    /\ atEvent = NoResps
    /\ reported = [i \in VcpuIds |-> {}]
    /\ nResponses = 0
    /\ nCalls = 0
    /\ stopArg = -1
    /\ stopCalls = 0
    /\ lock = [o \in ObserverIds |-> "free"]
    /\ invoked = <<>>
    /\ inHook = {}
    /\ hookErr = {}
    /\ termRestored = ""
    /\ exitStatus = -1


(* EventFd::write(1) adds to the counter.  The only reader, process, drops  *)
(* the value it reads, so counts from MaxExitWrites up are not told apart.  *)
EventFdWrite(n) == IF n < MaxExitWrites THEN n + 1 ELSE n

(* ------------------------- vCPU threads -------------------------------- *)
(* The run loop of a vCPU thread (vstate::Vcpu) is not part of             *)
(* src/; it is modelled from the contract of spec.md section 4.2, plus the  *)
(* ways a thread can break that contract.                                   *)

Live(i) == thread[i] \in {"paused", "running"}

\* stop has been entered and the process has not ended
Stopping == pc \in {"observers", "hook", "panicked"}

\* The process has ended, and every thread of it: by _exit, or by a panic
\* that ends the process.
Terminated == pc \in {"exited", "aborted"}

(* Once stop is entered the Orchestrator reads no channel again and _exit   *)
(* ends every thread: the vCPU threads are followed up to stop's entry.     *)
VcpuRuns(i) == Live(i) /\ ~Stopping /\ ~Terminated

\* The thread takes a Resume command and answers it with one Resumed.
VcpuResumed(i) ==
    /\ VcpuRuns(i)
    /\ evq[i] > 0
    /\ nResponses < MaxResponses
    /\ evq' = [evq EXCEPT ![i] = @ - 1]
    /\ thread' = [thread EXCEPT ![i] = "running"]
    /\ respq' = [respq EXCEPT ![i] = Append(@, Resumed)]
    /\ nResponses' = nResponses + 1
    /\ UNCHANGED <<vcpus_handles, exit_evt, exit_observers, mmio_devices, mmio_bus, event, ctlVars, took,
                   polled, atEvent, reported, nCalls, stopVars>>

\* The guest halts: the thread emits one Exited(c), writes the exit event
\* and terminates, which closes its ends of both channels.
VcpuExited(i, c) ==
    /\ VcpuRuns(i)
    /\ thread[i] = "running"
    /\ nResponses < MaxResponses
    /\ thread' = [thread EXCEPT ![i] = "dead"]
    /\ respq' = [respq EXCEPT ![i] = Append(@, Exited(c))]
    /\ reported' = [reported EXCEPT ![i] = @ \cup {c}]
    /\ exit_evt' = EventFdWrite(exit_evt)
    /\ nResponses' = nResponses + 1
    /\ UNCHANGED <<vcpus_handles, exit_observers, mmio_devices, mmio_bus, event, ctlVars, evq, took, polled,
                   atEvent, nCalls, stopVars>>

\* A thread that breaks the exactly-once contract: a response nobody asked
\* for, a second response, or one of the wrong kind.
VcpuMisbehaves(i, r) ==
    /\ VcpuRuns(i)
    /\ nResponses < MaxResponses
    /\ respq' = [respq EXCEPT ![i] = Append(@, r)]
    /\ nResponses' = nResponses + 1
    /\ UNCHANGED <<vcpus_handles, exit_evt, exit_observers, mmio_devices, mmio_bus, event, ctlVars, thread,
                   evq, reported, took, polled, atEvent, nCalls, stopVars>>

\* A thread that leaves its run loop before it was ever resumed: it reports
\* Exited(c), writes the exit event and terminates.
VcpuAborts(i, c) ==
    /\ VcpuRuns(i)
    /\ thread[i] = "paused"
    /\ nResponses < MaxResponses
    /\ thread' = [thread EXCEPT ![i] = "dead"]
    /\ respq' = [respq EXCEPT ![i] = Append(@, Exited(c))]
    /\ reported' = [reported EXCEPT ![i] = @ \cup {c}]
    /\ exit_evt' = EventFdWrite(exit_evt)
    /\ nResponses' = nResponses + 1
    /\ UNCHANGED <<vcpus_handles, exit_observers, mmio_devices, mmio_bus, event, ctlVars, evq, took, polled,
                   atEvent, nCalls, stopVars>>

\* A device (the i8042 controller) or a signal handler asks for shutdown by
\* writing to the exit-event descriptor.
WriteExitEvent ==
    /\ ~Terminated
    /\ exit_evt' = EventFdWrite(exit_evt)
    /\ UNCHANGED <<vcpus_handles, exit_observers, mmio_devices, mmio_bus, event, ctlVars, vcpuVars, took,
                   polled, atEvent, nCalls, stopVars>>

(* VcpuHandle::send_event: fails when the receiving thread has terminated. *)
SendEventOk(th, i) == th[i] \in {"paused", "running"}

\* the command queue of thread i after send_event(Resume)
SendEvent(q, i) == [q EXCEPT ![i] = @ + 1]

(* Vcpu::start_threaded: the handle of a thread that starts off Paused.    *)
StartThreaded(th, i) == [th EXCEPT ![i] = "paused"]

(* --------------------------- control thread ---------------------------- *)
(* The control thread is followed from one blocking call to the next: the  *)
(* loops that cannot block (the spawn loop and the send loop of            *)
(* start_vcpus / resume_vcpus, find_map in process) run within one step,   *)
(* computed turn by turn as the code runs them; recv_timeout and           *)
(* observer.lock() are steps of their own.                                 *)
Idle == pc = "idle"

\* The control thread moves to position p, loop index k, with result r.
Goto(p, k, r) == pc' = p /\ idx' = k /\ result' = r

(* --------------------------- resume_vcpus ------------------------------ *)
\* A loop that would pass over a failed send and go on to the handles left,
\* reporting the first failure at the end: the variant of SendLoop that
\* C19_SendFailureStopsAtOnce tells apart.
SendLoopGoesOn(handles, th, q, k) ==
    LET turns == k..Len(handles)
        failed == {j \in turns : ~SendEventOk(th, handles[j])}
        sentTo == {handles[j] : j \in turns \ failed}
    IN
    [ok |-> failed = {},
     evq |-> [i \in DOMAIN q |-> IF i \in sentTo THEN q[i] + 1 ELSE q[i]],
     at |-> IF failed = {} THEN Len(handles) + 1
            ELSE CHOOSE j \in failed : \A m \in failed : j <= m]

\* The first loop of resume_vcpus from turn k on: send_event(Resume) to each
\* handle in vector order; the first failure ends it (`?`).
RECURSIVE SendLoop(_, _, _, _)
SendLoop(handles, th, q, k) ==
    IF k > Len(handles)
    THEN [ok |-> TRUE, evq |-> q, at |-> k]
    ELSE IF SendEventOk(th, handles[k])
         THEN SendLoop(handles, th, SendEvent(q, handles[k]), k + 1)
         ELSE [ok |-> FALSE, evq |-> q, at |-> k]

\* resume_vcpus up to its first recv_timeout, over the handles and threads
\* as they are when it is entered.
EnterResume(handles, th) ==
    LET sent == SendLoop(handles, th, evq, 1) IN
    /\ evq' = sent.evq
    /\ IF ~sent.ok
       THEN Goto("ret", sent.at, "VcpuEvent")
       ELSE IF Len(handles) = 0
            THEN Goto("ret", 0, "Ok")
            ELSE Goto("recv", 1, "")

ResumeVcpus ==
    /\ Idle
    /\ nCalls < MaxCalls
    /\ op' = "resume_vcpus"
    /\ EnterResume(vcpus_handles, thread)
    /\ lenAtCall' = Len(vcpus_handles)
    /\ took' = NoResps
    /\ nCalls' = nCalls + 1
    /\ UNCHANGED <<vcpus_handles, exit_evt, exit_observers, mmio_devices, mmio_bus, event, nArg, thread,
                   respq, reported, nResponses, polled, atEvent, stopVars>>

\* A match that would let Paused through as well: the variant of
\* ResumeAccepts that C1_SuccessIffAllResumed tells apart from the code's.
ResumeAcceptsPaused(r) == r \in {Resumed, Paused}

\* The match of the second loop: Ok(VcpuResponse::Resumed) => (), _ => Err
ResumeAccepts(r) == r = Resumed

\* A receive without a timeout (recv) completes only with a response queued:
\* the variant of RecvTimeoutReady that C2_SilentHandleFails tells apart.
RecvBlocks(i) == FALSE

\* recv_timeout(1000 ms) always completes: with a response queued at once,
\* with none queued when the timeout runs out or the channel is found
\* disconnected.
RecvTimeoutReady(i) == TRUE

\* A loop that would note the failure and go on to the handles left: the
\* variant of OnRecvFailure that C17_ResumeFailsFast tells apart.
KeepsReceiving(k, n) ==
    IF k < n THEN [pc |-> "recv", idx |-> k + 1, result |-> ""]
             ELSE [pc |-> "ret", idx |-> k, result |-> "VcpuResume"]

\* _ => return Err(Error::VcpuResume) in turn k of n: the function returns
\* from within the loop.
OnRecvFailure(k, n) == [pc |-> "ret", idx |-> k, result |-> "VcpuResume"]

\* One turn of the second loop.  The 1000 ms are not counted: with nothing
\* queued the timeout may run out at any moment the thread has not answered.
RecvResumed ==
    /\ pc = "recv"
    /\ LET i == vcpus_handles[idx]
           failed == OnRecvFailure(idx, Len(vcpus_handles))
       IN
       /\ RecvTimeoutReady(i) \/ respq[i] # <<>>
       /\ IF respq[i] # <<>>
          THEN /\ respq' = [respq EXCEPT ![i] = Tail(@)]
               /\ took' = [took EXCEPT ![i] = Append(@, Head(respq[i]))]
               /\ IF ResumeAccepts(Head(respq[i]))
                  THEN IF idx < Len(vcpus_handles)
                       THEN Goto("recv", idx + 1, "")
                       ELSE Goto("ret", idx, "Ok")
                  ELSE Goto(failed.pc, failed.idx, failed.result)
          ELSE /\ Goto(failed.pc, failed.idx, failed.result)
               /\ UNCHANGED <<respq, took>>
    /\ UNCHANGED <<vcpus_handles, exit_evt, exit_observers, mmio_devices, mmio_bus, event, op, nArg,
                   lenAtCall, thread, evq, reported, nResponses, polled,
                   atEvent, nCalls, stopVars>>

(* --------------------------- start_vcpus ------------------------------- *)
\* An assignment in place of the push, the vector holding the last handle
\* only: the variant of PushHandle that C9_SuccessAppendsAll tells apart.
PushHandleAssigns(handles, h) == <<h>>

\* An insertion at the front: the variant of PushHandle that
\* C10_OnlyStartVcpusAppends tells apart.
PushHandleFront(handles, h) == <<h>> \o handles

\* vcpus_handles.push(handle)
PushHandle(handles, h) == Append(handles, h)

\* A vCPU left without its bus: the variant of SetMmioBus that
\* C18_BusThenSpawnThenResume tells apart.
SetMmioBusSkipped(bus, i) == bus

\* vcpu.set_mmio_bus(self.mmio_device_manager.bus.clone())
SetMmioBus(bus, i) == [bus EXCEPT ![i] = "attached"]

\* The loop over vcpus.drain(..) when the first k calls of start_threaded
\* succeed: in each turn the bus is attached to the vCPU, then the vCPU is
\* moved into its thread and the handle pushed.  (The vCPU whose
\* start_threaded fails is dropped with whatever was attached to it.)
RECURSIVE SpawnLoop(_, _, _, _)
SpawnLoop(handles, th, bus, k) ==
    IF k = 0
    THEN [handles |-> handles, thread |-> th, bus |-> bus]
    ELSE LET id == Len(handles) + 1
             attached == SetMmioBus(bus, id)
         IN
         SpawnLoop(PushHandle(handles, id), StartThreaded(th, id), attached, k - 1)

\* A return that would first undo the spawns made so far: the variant of
\* OnSpawnFailure that C12_SpawnFailureKeepsSpawned tells apart.
RollBack(before, spawned) == before

\* What `?` leaves behind when start_threaded fails in a later turn: the
\* function returns at once, the handles pushed so far stay pushed and their
\* threads stay as they are.
OnSpawnFailure(before, spawned) == spawned

\* start_vcpus(vcpus) with vcpus.len() = n: start_threaded fails for vCPU
\* k + 1 (`?` returns VcpuHandle), or all n are spawned and
\* self.resume_vcpus()? follows, up to its first recv_timeout.
StartVcpus(n, k) ==
    /\ Idle
    /\ nCalls < MaxCalls
    /\ Len(vcpus_handles) + n <= MaxVcpus
    /\ k <= n
    /\ LET spawned == SpawnLoop(vcpus_handles, thread, mmio_bus, k)
           before == [handles |-> vcpus_handles, thread |-> thread,
                      bus |-> mmio_bus]
           left == IF k < n THEN OnSpawnFailure(before, spawned) ELSE spawned
       IN
       /\ vcpus_handles' = left.handles
       /\ thread' = left.thread
       /\ mmio_bus' = left.bus
       /\ IF k < n
          THEN Goto("ret", k + 1, "VcpuHandle") /\ UNCHANGED evq
          ELSE EnterResume(spawned.handles, spawned.thread)
    /\ op' = "start_vcpus"
    /\ nArg' = n
    /\ lenAtCall' = Len(vcpus_handles)
    /\ took' = NoResps
    /\ nCalls' = nCalls + 1
    /\ UNCHANGED <<exit_evt, exit_observers, mmio_devices, event, respq, reported, nResponses,
                   polled, atEvent, stopVars>>

\* The caller has the result; the control thread is back in its event loop.
Return ==
    /\ pc = "ret"
    /\ Goto("idle", 0, "")
    /\ op' = ""
    /\ nArg' = 0
    /\ lenAtCall' = 0
    /\ took' = NoResps
    /\ event' = NoEvent
    /\ UNCHANGED <<vcpus_handles, exit_evt, exit_observers, mmio_devices, mmio_bus,
                   vcpuVars, polled, atEvent, nCalls, stopVars>>

(* ------------------ get_bus_device, configure_system ------------------- *)
\* A lookup that finds nothing: the variant of GetDevice that
\* C14_LookupIdempotentReadOnly tells apart.
GetDeviceNone(devices, key) == "None"

\* MMIODeviceManager::get_device: the device registered under the key
GetDevice(devices, key) == IF key \in devices THEN "Some" ELSE "None"

\* What a call of an operation of &self that only reads leaves as it was
ReadOnly ==
    UNCHANGED <<vcpus_handles, exit_evt, exit_observers, mmio_devices, mmio_bus, event, nArg,
                lenAtCall, vcpuVars, took, polled, atEvent, nCalls, stopVars>>

\* (nArg holds the key the call was made with.)
GetBusDevice(key) ==
    /\ Idle
    /\ op' = "get_bus_device"
    /\ nArg' = key
    /\ Goto("ret", 0, GetDevice(mmio_devices, key))
    /\ UNCHANGED <<vcpus_handles, exit_evt, exit_observers, mmio_devices, mmio_bus,
                   event, lenAtCall, vcpuVars, took, polled, atEvent, nCalls,
                   stopVars>>

\* configure_system: the result of arch::configure_system, its error mapped
\* to ConfigureSystem
ConfigureSystem(failed) ==
    /\ Idle
    /\ op' = "configure_system"
    /\ Goto("ret", 0, IF failed THEN "ConfigureSystem" ELSE "Ok")
    /\ ReadOnly

(* ------------------------------ process -------------------------------- *)
\* The closure of find_map: Ok(VcpuResponse::Exited(exit_code)) => Some
IsExitCode(r) == r.tag = "Exited"

\* An iteration that would poll every handle and pick the first exit code
\* afterwards: the variant of FindMap that C20_PollsUpToFirstExit tells apart.
FindMapPollsAll(handles, q, got, k) ==
    LET turns == k..Len(handles)
        ready == {j \in turns : q[handles[j]] # <<>>}
        hits == {j \in ready : IsExitCode(Head(q[handles[j]]))}
        taken(i) == \E j \in ready : handles[j] = i
    IN
    [found |-> hits # {},
     code |-> IF hits = {} THEN 0
              ELSE Head(q[handles[CHOOSE j \in hits : \A m \in hits : j <= m]]).code,
     respq |-> [i \in DOMAIN q |-> IF taken(i) THEN Tail(q[i]) ELSE q[i]],
     polled |-> [i \in DOMAIN got |->
                   IF taken(i) THEN Append(got[i], Head(q[i])) ELSE got[i]]]

\* find_map from turn k on: try_recv takes the oldest response of the
\* handle's channel, if there is one; the first Some(exit_code) ends it.
RECURSIVE FindMap(_, _, _, _)
FindMap(handles, q, got, k) ==
    IF k > Len(handles)
    THEN [found |-> FALSE, code |-> 0, respq |-> q, polled |-> got]
    ELSE LET i == handles[k] IN
         IF q[i] = <<>>
         THEN FindMap(handles, q, got, k + 1)
         ELSE LET r == Head(q[i])
                  q1 == [q EXCEPT ![i] = Tail(@)]
                  got1 == [got EXCEPT ![i] = Append(@, r)]
              IN IF IsExitCode(r)
                 THEN [found |-> TRUE, code |-> r.code, respq |-> q1,
                       polled |-> got1]
                 ELSE FindMap(handles, q1, got1, k + 1)

\* A default other than FC_EXIT_CODE_OK: the variant of UnwrapOr that
\* C5_NoReportExitsOk tells apart.
UnwrapOrGenericError(found) == IF found.found THEN found.code ELSE 1

\* .unwrap_or(FC_EXIT_CODE_OK)
UnwrapOr(found) == IF found.found THEN found.code ELSE FC_EXIT_CODE_OK

\* self.stop(i32::from(exit_code)), up to the loop over the observers:
\* term_set_canonical_mode() succeeds or fails, and a failure is only logged.
CallStop(c) ==
    /\ pc' = "observers"
    /\ idx' = 1
    /\ stopArg' = c
    /\ stopCalls' = stopCalls + 1
    /\ \E r \in {"ok", "err"} : termRestored' = r

\* The event manager delivers (exit_evt, EventSet::IN) when the counter is
\* not zero; process reads the descriptor, which resets the counter, takes
\* the exit code from the handles and calls stop.
ProcessExitEvent ==
    /\ Idle
    /\ exit_evt > 0
    /\ exit_evt' = 0
    /\ op' = "process"
    /\ lenAtCall' = Len(vcpus_handles)
    /\ atEvent' = respq
    /\ LET found == FindMap(vcpus_handles, respq, NoResps, 1) IN
       /\ respq' = found.respq
       /\ polled' = found.polled
       /\ CallStop(UnwrapOr(found))
    /\ UNCHANGED <<vcpus_handles, exit_observers, mmio_devices, mmio_bus, nArg, result,
                   thread, evq, reported, nResponses, took, nCalls, lock,
                   invoked, inHook, hookErr, exitStatus>>

\* The else branch: the event is logged as spurious and process returns.
ProcessSpurious ==
    /\ op' = "process"
    /\ Goto("ret", 0, "Spurious")
    /\ UNCHANGED <<vcpus_handles, exit_evt, exit_observers, mmio_devices, mmio_bus, nArg,
                   lenAtCall, vcpuVars, took, polled, atEvent, nCalls,
                   stopVars>>

\* A test of the descriptor alone, whatever the event set: the variant of
\* IsExitEvent that C15_SpuriousEventIgnored tells apart.
IsExitFd(ev) == ev.data = ExitEvtFd

\* source == self.exit_evt.as_raw_fd() && event_set == EventSet::IN
IsExitEvent(ev) == ev.data = ExitEvtFd /\ ev.events = EventSetIn

\* epoll reports readability of the exit-event descriptor only while its
\* counter is not zero; any other event may reach process at any time.
Delivered(ev) == (ev.data = ExitEvtFd /\ "IN" \in ev.events) => exit_evt > 0

\* process(event, _), called by the event manager between two operations
Process(ev) ==
    /\ Idle
    /\ Delivered(ev)
    /\ event' = ev
    /\ IF IsExitEvent(ev) THEN ProcessExitEvent ELSE ProcessSpurious

(* --------------------------- interest_list ----------------------------- *)
\* A registration for writability as well: the variant of InterestListValue
\* that C13_InterestListOneReadableEntry tells apart.
InterestListReadWrite == <<EpollEvent({"IN", "OUT"}, ExitEvtFd)>>

\* vec![EpollEvent::new(EventSet::IN, self.exit_evt.as_raw_fd() as u64)]
InterestListValue == <<EpollEvent(EventSetIn, ExitEvtFd)>>

InterestList ==
    /\ Idle
    /\ op' = "interest_list"
    /\ Goto("ret", 0, InterestListValue)
    /\ ReadOnly

(* -------------------------------- stop --------------------------------- *)
\* What observer.lock() does on a mutex in state s: "acquired", "blocked"
\* while another thread holds it, "panic" (expect) once it is poisoned.
LockOutcome(s) ==
    CASE s = "free" -> "acquired"
      [] s = "poisoned" -> "panic"
      [] OTHER -> "blocked"

\* The status of a process that ends by a panic: 101 (the Rust runtime).
PanicStatus == 101

\* What the panic of expect leads to, as the build and the thread running
\* the event loop have it: the control thread unwinds and is gone while the
\* process lives on ("panicked"), or the process ends with PanicStatus
\* ("aborted").
PanicOutcomes == {"panicked", "aborted"}

\* One turn of the loop over exit_observers, up to the call of on_vmm_exit.
ObserverLock ==
    /\ pc = "observers"
    /\ idx <= Len(exit_observers)
    /\ LET o == exit_observers[idx] IN
       \/ /\ LockOutcome(lock[o]) = "acquired"
          /\ lock' = [lock EXCEPT ![o] = "stop"]
          /\ invoked' = Append(invoked, o)
          /\ inHook' = inHook \cup {o}
          /\ pc' = "hook"
          /\ UNCHANGED exitStatus
       \/ /\ LockOutcome(lock[o]) = "panic"
          /\ \E p \in PanicOutcomes :
                /\ pc' = p
                /\ exitStatus' = IF p = "aborted" THEN PanicStatus
                                 ELSE exitStatus
          /\ UNCHANGED <<lock, invoked, inHook>>
    /\ UNCHANGED <<vcpus_handles, exit_evt, exit_observers, mmio_devices, mmio_bus, event, op,
                   idx, nArg, lenAtCall, result, vcpuVars, took, polled,
                   atEvent, nCalls, stopArg, stopCalls, hookErr,
                   termRestored>>

\* The loop's next index once on_vmm_exit of observer k has returned: the
\* value it returned is dropped, failed or not.
NextObserver(k, failed) == k + 1

\* on_vmm_exit returns, with or without an error of its own; its value is
\* dropped, the guard is released and the loop goes on.
ObserverExit ==
    /\ pc = "hook"
    /\ LET o == exit_observers[idx] IN
       \E failed \in BOOLEAN :
          /\ hookErr' = IF failed THEN hookErr \cup {o} ELSE hookErr
          /\ lock' = [lock EXCEPT ![o] = "free"]
          /\ inHook' = inHook \ {o}
          /\ idx' = NextObserver(idx, failed)
    /\ pc' = "observers"
    /\ UNCHANGED <<vcpus_handles, exit_evt, exit_observers, mmio_devices, mmio_bus, event, op,
                   nArg, lenAtCall, result, vcpuVars, took, polled, atEvent,
                   nCalls, stopArg, stopCalls, invoked, termRestored,
                   exitStatus>>

\* An exit that would hand control back to the event loop: the variant of
\* AfterExit that C8_StopEnteredOnce tells apart.
ReturnsToCaller == "idle"

\* Where the control thread is after libc::_exit: nowhere, the process is
\* gone.
AfterExit == "exited"

\* libc::_exit(exit_code)
ProcessExit ==
    /\ pc = "observers"
    /\ idx > Len(exit_observers)
    /\ pc' = AfterExit
    /\ exitStatus' = stopArg
    /\ UNCHANGED <<vcpus_handles, exit_evt, exit_observers, mmio_devices, mmio_bus, event, op, idx, nArg,
                   lenAtCall, result, vcpuVars, took, polled, atEvent,
                   nCalls, stopArg, stopCalls, lock, invoked, inHook, hookErr,
                   termRestored>>

(* Exit observers are Arc<Mutex<..>> shared with their registrar: another   *)
(* thread may hold an observer's lock, release it, or panic while holding   *)
(* it, which poisons the mutex.  The Orchestrator touches a lock only when  *)
(* stop's loop reaches its observer, so another holder is followed from     *)
(* that moment on: a lock taken earlier is the same to stop as one taken    *)
(* just before stop asks for it.                                            *)
OtherLocks(o) ==
    /\ pc = "observers"
    /\ idx <= Len(exit_observers)
    /\ o = exit_observers[idx]
    /\ lock[o] = "free"
    /\ lock' = [lock EXCEPT ![o] = "other"]
    /\ UNCHANGED <<vcpus_handles, exit_evt, exit_observers, mmio_devices, mmio_bus, event, ctlVars, vcpuVars,
                   took, polled, atEvent, nCalls, stopArg, stopCalls, invoked,
                   inHook, hookErr, termRestored, exitStatus>>

OtherUnlocks(o) ==
    /\ lock[o] = "other"
    /\ \E s \in {"free", "poisoned"} : lock' = [lock EXCEPT ![o] = s]
    /\ UNCHANGED <<vcpus_handles, exit_evt, exit_observers, mmio_devices, mmio_bus, event, ctlVars, vcpuVars,
                   took, polled, atEvent, nCalls, stopArg, stopCalls, invoked,
                   inHook, hookErr, termRestored, exitStatus>>

(* ------------------------------- Next ---------------------------------- *)
\* the event process acts upon
ExitEvent == EpollEvent(EventSetIn, ExitEvtFd)

\* The operations of the control thread that drive the lifecycle, the
\* observers' loop of stop aside
Operations ==
    \/ \E n \in 0..MaxVcpus, k \in 0..MaxVcpus : StartVcpus(n, k)
    \/ ResumeVcpus
    \/ RecvResumed
    \/ Return
    \/ Process(ExitEvent)
    \/ ProcessExit

\* The operations that only read, and process called with another event
Queries ==
    \/ \E key \in DeviceKeys : GetBusDevice(key)
    \/ \E failed \in BOOLEAN : ConfigureSystem(failed)
    \/ InterestList
    \/ \E ev \in Events \ {ExitEvent} : Process(ev)

Orchestrator == Operations \/ Queries

\* vCPU threads that keep the contract of their run loop, and the other
\* writers of the exit event
Collaborators ==
    \/ \E i \in VcpuIds : VcpuResumed(i)
    \/ \E i \in VcpuIds, c \in ExitCodes : VcpuExited(i, c)
    \/ WriteExitEvent

\* stop's loop over the exit observers, and the other holders of their locks
Observers ==
    \/ ObserverLock
    \/ ObserverExit
    \/ \E o \in ObserverIds : OtherLocks(o)
    \/ \E o \in ObserverIds : OtherUnlocks(o)

\* vCPU threads that break the contract
Faults ==
    \/ \E i \in VcpuIds, r \in Unsolicited : VcpuMisbehaves(i, r)
    \/ \E i \in VcpuIds, c \in ExitCodes : VcpuAborts(i, c)

Next == Orchestrator \/ Collaborators \/ Observers \/ Faults

Spec == Init /\ [][Next]_vars

(* The parts of Spec that are model-checked.  stop reads nothing of the     *)
(* vCPU threads, the threads nothing of the observers, and the operations   *)
(* that only read write nothing any of them reads, so each part leaves out  *)
(* what another explores: VcpuSpec follows every behaviour of the vCPU      *)
(* threads for an Orchestrator constructed without exit observers,          *)
(* TeardownSpec every behaviour of the observers' locks with vCPU threads   *)
(* that keep their contract, QuerySpec every operation of the Orchestrator, *)
(* the read-only ones included, with vCPU threads that keep their contract  *)
(* and no exit observers.                                                   *)
InitNoObservers == Init /\ exit_observers = <<>>

NextVcpu == Operations \/ Collaborators \/ Faults

VcpuSpec == InitNoObservers /\ [][NextVcpu]_vars

NextTeardown == Operations \/ Collaborators \/ Observers

TeardownSpec == Init /\ [][NextTeardown]_vars

NextQuery == Orchestrator \/ Collaborators

QuerySpec == InitNoObservers /\ [][NextQuery]_vars

(* ============================ properties =============================== *)
(* ----------------------------- resume_vcpus ---------------------------- *)
\* resume_vcpus has returned, called by itself or as the tail of a
\* start_vcpus that spawned every vCPU.
ResumeReturned ==
    /\ pc = "ret"
    /\ op \in {"resume_vcpus", "start_vcpus"}
    /\ result \in {"Ok", "VcpuEvent", "VcpuResume"}

HandleIdx == 1..Len(vcpus_handles)

\* C1: resume_vcpus returns success if and only if every handle received
\* exactly one response within the timeout and that response was Resumed,
\* for every number of handles and whatever the threads emit or fail to
\* emit.  What a handle received is what its receiver handed to the call
\* (took); the call hands out at most one response per handle.
C1_SuccessIffAllResumed ==
    /\ \A i \in VcpuIds : Len(took[i]) <= 1
    /\ ResumeReturned =>
          ((result = "Ok") <=>
              \A k \in HandleIdx : took[vcpus_handles[k]] = <<Resumed>>)

\* The call returned Ok with Resumed received from its handle, while a
\* further response of the thread (more than one response) sits unread.
C1_Witness ==
    /\ ResumeReturned
    /\ result = "Ok"
    /\ \E k \in HandleIdx : /\ took[vcpus_handles[k]] = <<Resumed>>
                            /\ respq[vcpus_handles[k]] # <<>>

\* C1, the failing side: a handle that received a response other than
\* Resumed, or none, made the call fail.
C1_WitnessFailure ==
    /\ ResumeReturned
    /\ result = "VcpuResume"
    /\ took[vcpus_handles[1]] = <<Resumed>>
    /\ took[vcpus_handles[idx]] = <<Paused>>

\* Nothing came from vCPU i for this call and nothing is queued for it.
Silent(i) == took[i] = <<>> /\ respq[i] = <<>>

SomeHandleSilent == \E k \in HandleIdx : Silent(vcpus_handles[k])

\* vCPU i is alive with a Resume command waiting for it, which it has not
\* taken, and has sent nothing.
NeverResponds(i) == Silent(i) /\ Live(i) /\ evq[i] > 0

\* C2 as stated: with a handle whose thread never responds, resume_vcpus
\* never blocks on a handle and its result is the VcpuResume error.
C2_SilentHandleGivesVcpuResume ==
    /\ pc = "recv" => ENABLED RecvResumed
    /\ (ResumeReturned /\ \E k \in HandleIdx : NeverResponds(vcpus_handles[k]))
          => result = "VcpuResume"

\* C2, amended: with a handle whose channel holds and delivers nothing,
\* resume_vcpus never blocks on a handle and returns an error: VcpuEvent
\* when sending Resume to a handle failed because its thread has gone,
\* VcpuResume otherwise.
C2_SilentHandleFails ==
    /\ pc = "recv" => ENABLED RecvResumed
    /\ (ResumeReturned /\ SomeHandleSilent) =>
          /\ result \in {"VcpuResume", "VcpuEvent"}
          /\ result = "VcpuEvent" => ~Live(vcpus_handles[idx])

\* The first handle answered Resumed, the second stayed silent and the call
\* returned VcpuResume.
C2_Witness ==
    /\ ResumeReturned
    /\ result = "VcpuResume"
    /\ Len(vcpus_handles) = 2
    /\ took[vcpus_handles[1]] = <<Resumed>>
    /\ NeverResponds(vcpus_handles[2])

(* ------------------------------- process ------------------------------- *)
\* The handles whose thread has reported an exit code.  Threads stand still
\* once stop is entered, so this is what was reported when the exit event
\* was handled.
Reporters == {k \in HandleIdx : reported[vcpus_handles[k]] # {}}

LowestReporter == CHOOSE k \in Reporters : \A j \in Reporters : k <= j

\* C3: when exactly one vCPU has reported Exited(c) as the exit event is
\* handled, stop is called with c, whatever was called before and whatever
\* else is pending on the response channels.
C3_SingleReportIsExitCode ==
    (stopCalls > 0 /\ Cardinality(Reporters) = 1) =>
        stopArg \in reported[vcpus_handles[LowestReporter]]

\* C4: when several vCPUs have reported Exited codes as the exit event is
\* handled, stop is called with one of the reported codes, that of the
\* lowest-index handle that has reported.
C4_LowestIndexReportIsExitCode ==
    (stopCalls > 0 /\ Cardinality(Reporters) >= 2) =>
        /\ \E k \in Reporters : stopArg \in reported[vcpus_handles[k]]
        /\ stopArg \in reported[vcpus_handles[LowestReporter]]

\* C5: when no vCPU has reported Exited as the exit event is handled, stop is
\* called with FC_EXIT_CODE_OK, whatever other responses are pending.
C5_NoReportExitsOk ==
    (stopCalls > 0 /\ Reporters = {}) => stopArg = FC_EXIT_CODE_OK

\* stop was called with no exit code reported, while responses that are not
\* Exited were pending on a handle as the event was handled.
C5_Witness ==
    /\ stopCalls > 0
    /\ Reporters = {}
    /\ \E k \in HandleIdx : atEvent[vcpus_handles[k]] # <<>>
    /\ stopArg = FC_EXIT_CODE_OK

(* -------------------------------- stop --------------------------------- *)
IsPrefix(a, b) == Len(a) <= Len(b) /\ SubSeq(b, 1, Len(a)) = a

\* C6: stop invokes the teardown hook of every registered observer exactly
\* once, in registration order and never two at a time, before the process
\* ends: the hooks invoked so far are the first registered ones in their
\* order, at most one is running, and none is left out once the process has
\* ended.
C6_EveryObserverInvokedOnce ==
    /\ IsPrefix(invoked, exit_observers)
    /\ Cardinality(inHook) <= 1
    /\ Terminated => (invoked = exit_observers /\ inHook = {})

\* A step of stop, or of the thread stop is waiting for
StopStep ==
    \/ ObserverLock
    \/ ObserverExit
    \/ ProcessExit
    \/ \E o \in ObserverIds : OtherUnlocks(o)

StopPcs == {"observers", "hook", "panicked", "exited", "aborted"}

\* C7: once stop(exit_code) is invoked the process ends with exactly
\* exit_code and nothing the terminal restore or an observer does blocks or
\* diverts that: control stays in stop, and stop either has ended the
\* process with exit_code or has a step to take towards it.
C7_StopExitsWithExitCode ==
    stopCalls > 0 =>
        /\ pc \in StopPcs
        /\ IF Terminated THEN exitStatus = stopArg ELSE ENABLED StopStep

StartOk ==
    /\ pc = "ret"
    /\ op = "start_vcpus"
    /\ result = "Ok"
    /\ nArg >= 1

\* The handle holds the receiving end of a response channel, the one
\* start_threaded made: what its thread sent can be received over it, also
\* after the thread has ended.
ChannelOpen(i) == thread[i] # "none"

StartVcpusCalled == pc = "idle" /\ op' = "start_vcpus"

\* C10 as stated: the vector is populated exactly once, by the start_vcpus
\* called on the empty vector, with as many handles as vCPUs were passed;
\* no other step, a further or failed start_vcpus included, changes it.
C10_PopulatedOnce ==
    [][IF StartVcpusCalled /\ vcpus_handles = <<>>
       THEN Len(vcpus_handles') = nArg'
       ELSE vcpus_handles' = vcpus_handles]_vars

\* C10, amended: the vector only grows, by start_vcpus appending the handles
\* it has spawned (all N, fewer when a spawn failed) behind the ones it
\* holds, which keep their places; no other operation changes it.
C10_OnlyStartVcpusAppends ==
    [][/\ IsPrefix(vcpus_handles, vcpus_handles')
       /\ vcpus_handles' # vcpus_handles => StartVcpusCalled
       /\ StartVcpusCalled =>
             /\ Len(vcpus_handles') <= Len(vcpus_handles) + nArg'
             /\ result' # "VcpuHandle" =>
                   Len(vcpus_handles') = Len(vcpus_handles) + nArg']_vars

\* A further start_vcpus has returned, one handle appended behind the one
\* that a start_vcpus whose second spawn failed had left in the vector.
C10_Witness ==
    /\ pc = "ret"
    /\ op = "start_vcpus"
    /\ vcpus_handles = <<1, 2>>
    /\ lenAtCall = 1
    /\ Len(vcpus_handles) = 2

(* ------------------------ commands and responses ----------------------- *)
\* C11: for every Resume command sent, the Orchestrator receives the
\* matching response within the timeout or the operation fails: when
\* resume_vcpus has returned success no handle has a Resume command that its
\* thread has not yet taken and answered.
C11_EveryResumeAnsweredOrFailed ==
    (ResumeReturned /\ result = "Ok") =>
        \A k \in HandleIdx : evq[vcpus_handles[k]] = 0

(* ------------------------- start_vcpus, failing ------------------------ *)
\* The step is a call of start_vcpus in which a spawn fails.
SpawnFails == StartVcpusCalled /\ result' = "VcpuHandle"

\* C12: when the spawn of the k-th vCPU fails, start_vcpus returns VcpuHandle
\* without rollback: the handles of the k-1 vCPUs spawned before it are
\* pushed behind the ones the vector held, their threads are alive, the
\* threads spawned earlier are as they were, and no command at all is sent
\* to any thread.  (idx' is k, the turn of the loop that failed.)
C12_SpawnFailureKeepsSpawned ==
    [][SpawnFails =>
         /\ idx' \in 1..nArg'
         /\ IsPrefix(vcpus_handles, vcpus_handles')
         /\ Len(vcpus_handles') = Len(vcpus_handles) + idx' - 1
         /\ \A k \in (Len(vcpus_handles) + 1)..Len(vcpus_handles') :
               /\ thread[vcpus_handles'[k]] = "none"
               /\ thread'[vcpus_handles'[k]] = "paused"
         /\ \A i \in VcpuIds : thread[i] # "none" => thread'[i] = thread[i]
         /\ evq' = evq]_vars

\* start_vcpus has returned VcpuHandle for its second vCPU: the handle of the
\* first is in the vector and its thread is alive.
C12_Witness ==
    /\ pc = "ret"
    /\ op = "start_vcpus"
    /\ result = "VcpuHandle"
    /\ idx = 2
    /\ Len(vcpus_handles) = lenAtCall + 1
    /\ Live(vcpus_handles[Len(vcpus_handles)])

(* ----------------------- read-only operations -------------------------- *)
\* Everything but the control thread's own position and the value it
\* returns: the Orchestrator's fields, the threads, the channels, the
\* observers and the process.
ProgramState ==
    <<vcpus_handles, exit_evt, exit_observers, mmio_devices, mmio_bus, thread, evq,
      respq, reported, took, polled, atEvent, nResponses, nCalls, stopArg,
      stopCalls, lock, invoked, inHook, hookErr, termRestored, exitStatus>>

\* The step is a call of the operation named.
Called(name) == pc = "idle" /\ op' = name

\* C13: whenever it is called, in whatever state, interest_list returns
\* exactly one entry, bound to the exit-event descriptor, with readable
\* interest only, and the call changes no state.
C13_InterestListOneReadableEntry ==
    /\ [](Idle => ENABLED InterestList)
    /\ [][Called("interest_list") =>
            /\ pc' = "ret"
            /\ Len(result') = 1
            /\ result'[1].data = ExitEvtFd
            /\ result'[1].events = EventSetIn
            /\ UNCHANGED ProgramState]_vars

\* interest_list has returned in a state where vCPUs are started and the
\* exit event is pending.
C13_Witness ==
    /\ pc = "ret"
    /\ op = "interest_list"
    /\ vcpus_handles # <<>>
    /\ exit_evt > 0

\* C14: get_bus_device is idempotent and free of side effects: no step
\* changes the registry, a call changes no state, and what a call returns
\* for a key is what the registry held for that key at construction,
\* however many lookups and other operations came before.
C14_LookupIdempotentReadOnly ==
    /\ [][mmio_devices' = mmio_devices]_vars
    /\ [][Called("get_bus_device") =>
            /\ pc' = "ret"
            /\ nArg' \in DeviceKeys
            /\ result' = IF nArg' = FsDevice THEN "Some" ELSE "None"
            /\ UNCHANGED ProgramState]_vars

\* A lookup of the registered device has returned it after vCPUs were
\* started and the exit event was written.
C14_Witness ==
    /\ pc = "ret"
    /\ op = "get_bus_device"
    /\ nArg = FsDevice
    /\ result = "Some"
    /\ vcpus_handles # <<>>
    /\ exit_evt > 0

\* The step is a call of process with an event other than readability of
\* the exit-event descriptor.
SpuriousCalled ==
    /\ Called("process")
    /\ event'.data # ExitEvtFd \/ event'.events # EventSetIn

\* C15: process called with any other event than readability of the
\* exit-event descriptor does not act on it: the descriptor is not drained,
\* no response is taken from a channel, no observer is invoked, stop is not
\* called and the process keeps running; process just returns.
C15_SpuriousEventIgnored ==
    [][SpuriousCalled =>
         /\ exit_evt' = exit_evt
         /\ respq' = respq
         /\ invoked' = invoked /\ inHook' = inHook
         /\ stopCalls' = stopCalls
         /\ exitStatus' = exitStatus
         /\ pc' = "ret"
         /\ UNCHANGED ProgramState]_vars

\* process has returned from an event on the exit-event descriptor that is
\* not exactly readable, with the descriptor readable and a response
\* pending on a channel.
C15_Witness ==
    /\ pc = "ret"
    /\ op = "process"
    /\ event = EpollEvent({"IN", "OUT"}, ExitEvtFd)
    /\ exit_evt > 0
    /\ \E i \in VcpuIds : respq[i] # <<>>

(* ------------------------------ end to end ----------------------------- *)
\* The one call of start_vcpus made has succeeded: every vCPU was spawned
\* and has resumed, and the call received the Resumed of each (none was
\* left on a channel for process to find).
Booted ==
    /\ nCalls = 1
    /\ vcpus_handles # <<>>
    /\ \A k \in HandleIdx :
          LET i == vcpus_handles[k] IN
          /\ thread[i] \in {"running", "dead"}
          /\ \A j \in 1..Len(atEvent[i]) : atEvent[i][j] # Resumed

\* The exit code passed to stop is one a vCPU reported.
ExitCodeReported ==
    \E k \in Reporters : stopArg \in reported[vcpus_handles[k]]

\* C16, the exit code: with vCPU threads that keep their contract and a
\* start_vcpus that succeeded, the exit code process computes once a vCPU
\* has halted is one a vCPU reported (0 when all reported 0).
C16_ExitCodePart ==
    (stopCalls > 0 /\ Booted /\ Reporters # {}) => ExitCodeReported

\* C16: end to end, with vCPU threads that keep their contract and a
\* start_vcpus that succeeded: once the process has terminated after a vCPU
\* halted, stop was called with an exit code a vCPU reported and the
\* teardown of every registered observer has run.
C16_EndToEnd ==
    /\ C16_ExitCodePart
    /\ (Terminated /\ Booted /\ Reporters # {}) => invoked = exit_observers
(* ------------------------------- C17 ----------------------------------- *)
\* A turn of the second loop of resume_vcpus taken by the control thread
RecvTurn == pc = "recv" /\ (pc' # pc \/ idx' # idx)

\* The turn finds no Resumed: the receive timed out (nothing queued, or the
\* channel disconnected) or gave another response.
RecvTurnFails ==
    /\ RecvTurn
    /\ LET i == vcpus_handles[idx] IN
       respq[i] = <<>> \/ Head(respq[i]) # Resumed

\* C17: resume_vcpus fails fast.  The turn of the second loop whose handle
\* times out or answers anything but Resumed is the last one: the call
\* returns VcpuResume from that turn, at that handle; from no handle later
\* in the vector a response is awaited or taken (its queue and what the call
\* took from it stay as they were, nothing taken), and no thread is stopped
\* or sent anything, so vCPUs resumed so far keep running.
C17_ResumeFailsFast ==
    [][RecvTurnFails =>
          /\ pc' = "ret" /\ result' = "VcpuResume" /\ idx' = idx
          /\ \A k \in HandleIdx :
                k > idx => /\ respq'[vcpus_handles[k]] = respq[vcpus_handles[k]]
                           /\ took'[vcpus_handles[k]] = <<>>
          /\ \A k \in HandleIdx :
                k < idx => took'[vcpus_handles[k]] = <<Resumed>>
          /\ thread' = thread /\ evq' = evq /\ vcpus_handles' = vcpus_handles]_vars

\* The call failed at the first of two handles while the second one had
\* answered: the second thread runs on, its Resumed still queued.
C17_Witness ==
    /\ pc = "ret"
    /\ op \in {"start_vcpus", "resume_vcpus"}
    /\ result = "VcpuResume"
    /\ Len(vcpus_handles) = 2 /\ idx = 1
    /\ respq[vcpus_handles[2]] = <<Resumed>>
    /\ thread[vcpus_handles[2]] = "running"
    /\ took[vcpus_handles[2]] = <<>>

(* ------------------------------- C18 ----------------------------------- *)
\* vCPU i is moved into its thread by this step
Spawned(i) == thread[i] = "none" /\ thread'[i] # "none"

\* This step sends a Resume to some thread
SendsResume == \E i \in VcpuIds : evq'[i] > evq[i]

\* C18: the order within start_vcpus.  A vCPU's thread is spawned with the
\* MMIO bus already attached to the vCPU; a call of start_vcpus sends Resume
\* only when every one of its vCPUs has been spawned and pushed; hence a
\* call in which a spawn fails sends no Resume to any thread.
C18_BusThenSpawnThenResume ==
    /\ [][\A i \in VcpuIds : Spawned(i) => mmio_bus'[i] = "attached"]_vars
    /\ [][(StartVcpusCalled /\ SendsResume) =>
             /\ Len(vcpus_handles') = Len(vcpus_handles) + nArg'
             /\ \A k \in 1..Len(vcpus_handles') :
                   thread'[vcpus_handles'[k]] # "none"]_vars
    /\ [][SpawnFails => ~SendsResume]_vars

\* start_vcpus has returned VcpuHandle after it spawned a thread: the thread
\* holds the bus, is still Paused and has no Resume queued.
C18_Witness ==
    /\ pc = "ret"
    /\ op = "start_vcpus"
    /\ result = "VcpuHandle"
    /\ \E k \in HandleIdx :
          /\ k > lenAtCall
          /\ mmio_bus[vcpus_handles[k]] = "attached"
          /\ thread[vcpus_handles[k]] = "paused"
          /\ evq[vcpus_handles[k]] = 0

(* ------------------------------- C19 ----------------------------------- *)
\* The call of start_vcpus or resume_vcpus made by this step ends in
\* VcpuEvent: a send_event(Resume) failed.
SendFails ==
    /\ pc = "idle"
    /\ op' \in {"start_vcpus", "resume_vcpus"}
    /\ result' = "VcpuEvent"

\* This step enters the second loop of resume_vcpus
StartsWaiting == pc = "idle" /\ pc' = "recv"

\* C19: resume_vcpus sends Resume handle by handle, in vector order, and
\* waits for no response before it has sent to every handle.  When the send
\* to handle i fails (its thread has terminated) the call returns VcpuEvent
\* at once: each handle before i has been sent one Resume, handle i and the
\* handles after it none, and no response was awaited or taken.
C19_SendFailureStopsAtOnce ==
    [][/\ SendFails =>
           /\ pc' = "ret"
           /\ idx' \in 1..Len(vcpus_handles')
           /\ ~SendEventOk(thread', vcpus_handles'[idx'])
           /\ \A k \in 1..Len(vcpus_handles') :
                 LET i == vcpus_handles'[k] IN
                 evq'[i] = IF k < idx' THEN evq[i] + 1 ELSE evq[i]
           /\ respq' = respq
           /\ took' = NoResps
       /\ StartsWaiting =>
             \A k \in 1..Len(vcpus_handles') :
                evq'[vcpus_handles'[k]] = evq[vcpus_handles'[k]] + 1
       /\ RecvTurn => evq' = evq]_vars

\* resume_vcpus has returned VcpuEvent at the second handle, whose thread
\* has terminated: the first thread has its Resume, the second has none.
C19_Witness ==
    /\ pc = "ret"
    /\ op \in {"start_vcpus", "resume_vcpus"}
    /\ result = "VcpuEvent"
    /\ idx = 2
    /\ evq[vcpus_handles[1]] > 0
    /\ evq[vcpus_handles[2]] = 0
    /\ thread[vcpus_handles[2]] = "dead"

(* ------------------------------- C20 ----------------------------------- *)
\* process takes the exit event in this step and goes through the handles
ExitEventTaken == pc = "idle" /\ op' = "process" /\ pc' = "observers"

\* The turns of find_map whose try_recv finds Exited at the head of the
\* handle's queue, and the turns find_map gets to: all up to the first one.
ExitTurns ==
    {k \in HandleIdx : /\ respq[vcpus_handles[k]] # <<>>
                       /\ IsExitCode(Head(respq[vcpus_handles[k]]))}

PolledTurns ==
    {k \in HandleIdx : \A j \in ExitTurns : k <= j}

\* C20: process polls the handles in vector order with a non-blocking
\* receive and stops at the first Exited.  From each handle up to and
\* including that one it takes the oldest response if one is queued, and
\* never more than one; the handles behind it are not polled and keep their
\* queues; and the iteration waits for nothing: with the exit event
\* pending, process can be taken whatever the queues hold, and gets to stop
\* in that same step.
C20_PollsUpToFirstExit ==
    [][/\ ExitEventTaken =>
           \A k \in HandleIdx :
              LET i == vcpus_handles[k] IN
              /\ Len(polled'[i]) <= 1
              /\ IF k \in PolledTurns /\ respq[i] # <<>>
                 THEN polled'[i] = <<Head(respq[i])>> /\ respq'[i] = Tail(respq[i])
                 ELSE polled'[i] = <<>> /\ respq'[i] = respq[i]
       /\ (Idle /\ exit_evt > 0) => ENABLED Process(ExitEvent)]_vars

\* process stopped at the first handle, which had reported Exited; the
\* second handle was not polled and its response is still queued.
C20_Witness ==
    /\ op = "process"
    /\ pc \in StopPcs
    /\ Len(vcpus_handles) = 2
    /\ polled[vcpus_handles[1]] # <<>>
    /\ IsExitCode(polled[vcpus_handles[1]][1])
    /\ polled[vcpus_handles[2]] = <<>>
    /\ respq[vcpus_handles[2]] # <<>>

=============================================================================
